---- MODULE Spec2Model ----
(***************************************************************************)
(* D-Day service: release-date resolution (app/services/tmdb.py), D-Day    *)
(* labelling and lookup (app/services/dday.py), the chat event generator   *)
(* (app/services/chat_orchestrator.py) and the route handlers of           *)
(* app/main.py (POST /dday, POST /dday/confirm, GET /dday,                 *)
(* GET /dday/longest, POST /chat/stream) over the relational store.        *)
(*                                                                         *)
(* Calendar dates are day numbers.  A catalog date string is a record      *)
(* [kind, day]: kind "none" is a missing key (Python None), "empty" is "", *)
(* "bad" is a text that datetime.fromisoformat rejects, "date" is          *)
(* "YYYY-MM-DD" and "datetime" is "YYYY-MM-DDTHH:MM:SS.000Z".  An optional *)
(* value is <<>> (None) or <<v>>.                                          *)
(***************************************************************************)
EXTENDS Integers, Sequences, FiniteSets, TLC

\* ------------------------------------------------------------------ bounds
MaxDay == 4
MaxResults == 3
MaxInfos == 2
MaxToday == 2
MaxLabelDay == 12
MaxRequests == 2
MaxToolCalls == 2
MaxLlmEvents == 2

Days == 0 .. MaxDay
None == "None"
Regions == {"KR", "US"}
ReleaseTypes == {3, 5}

RawNone == [kind |-> "none", day |-> 0]
RawEmpty == [kind |-> "empty", day |-> 0]
RawBad == [kind |-> "bad", day |-> 0]
RawDate(d) == [kind |-> "date", day |-> d]
RawDateTime(d) == [kind |-> "datetime", day |-> d]

\* date.isoformat(): the "YYYY-MM-DD" text of a date
isoformat(d) == RawDate(d)

SeqsUpTo(S, n) == UNION {[1 .. k -> S] : k \in 0 .. n}

\* ------------------------------------------------------- app/services/dday.py
\* a label that counts the release day itself as still to come
calculate_dday_label_offbyone(release_date, today_) ==
    LET delta == release_date - today_
    IN  IF delta >= 0 THEN "D-" \o ToString(delta)
        ELSE "D+" \o ToString(-delta)

\* calculate_dday_label(release_date, today=today)
calculate_dday_label(release_date, today_) ==
    LET delta == release_date - today_
    IN  IF delta > 0 THEN "D-" \o ToString(delta)
        ELSE IF delta = 0 THEN "D-DAY"
        ELSE "D+" \o ToString(IF delta < 0 THEN -delta ELSE delta)

\* a _parse_date that reads a date it cannot parse as a day far ahead
_parse_date_far(raw) ==
    IF raw.kind \in {"date", "datetime"} THEN <<raw.day>> ELSE <<11>>

\* ------------------------------------------------------- app/services/tmdb.py
\* TMDbClient._parse_date: None and "" are falsy, raw[:10] drops a time part,
\* a ValueError of fromisoformat gives None.
_parse_date(raw) ==
    IF raw.kind \in {"none", "empty"} THEN <<>>
    ELSE IF raw.kind = "bad" THEN <<>>
    ELSE <<raw.day>>

\* list.sort(key=...) is stable: an element goes after every element whose key
\* is not greater.  Elements are pairs <<date, item>>.
InsertAsc(sorted, x) ==
    LET k == Cardinality({i \in 1 .. Len(sorted) : sorted[i][1] <= x[1]})
    IN  SubSeq(sorted, 1, k) \o <<x>> \o SubSeq(sorted, k + 1, Len(sorted))

\* list.sort(key=..., reverse=True) keeps equal elements in their first order.
InsertDesc(sorted, x) ==
    LET k == Cardinality({i \in 1 .. Len(sorted) : sorted[i][1] >= x[1]})
    IN  SubSeq(sorted, 1, k) \o <<x>> \o SubSeq(sorted, k + 1, Len(sorted))

RECURSIVE SortAsc(_)
SortAsc(s) ==
    IF s = <<>> THEN <<>>
    ELSE InsertAsc(SortAsc(SubSeq(s, 1, Len(s) - 1)), s[Len(s)])

RECURSIVE SortDesc(_)
SortDesc(s) ==
    IF s = <<>> THEN <<>>
    ELSE InsertDesc(SortDesc(SubSeq(s, 1, Len(s) - 1)), s[Len(s)])

\* the (rd, item) pairs of the loop of _select_candidate, in catalog order
CandidatePairs(results) ==
    [i \in 1 .. Len(results) |-> <<_parse_date(results[i].release_date), results[i]>>]

DatedPairs(pairs) ==
    LET dated == SelectSeq(pairs, LAMBDA p : p[1] # <<>>)
    IN  [i \in 1 .. Len(dated) |-> <<dated[i][1][1], dated[i][2]>>]

\* a candidate selection that sorts the past candidates oldest first
_select_candidate_oldest(results, today_) ==
    LET dated == DatedPairs(CandidatePairs(results))
        future == SelectSeq(dated, LAMBDA p : p[1] >= today_)
        fallback == SelectSeq(dated, LAMBDA p : ~(p[1] >= today_))
    IN  IF future # <<>> THEN SortAsc(future)[1][2]
        ELSE IF fallback # <<>> THEN SortAsc(fallback)[1][2]
        ELSE results[1]

\* TMDbClient._select_candidate(results), results non-empty
_select_candidate(results, today_) ==
    LET dated == DatedPairs(CandidatePairs(results))
        future == SelectSeq(dated, LAMBDA p : p[1] >= today_)
        fallback == SelectSeq(dated, LAMBDA p : ~(p[1] >= today_))
    IN  IF future # <<>> THEN SortAsc(future)[1][2]
        ELSE IF fallback # <<>> THEN SortDesc(fallback)[1][2]
        ELSE results[1]

\* the (is_preferred, info) visits of the nested loop of _select_release
RECURSIVE ReleaseVisits(_, _)
ReleaseVisits(entries, region_code) ==
    IF entries = <<>> THEN <<>>
    ELSE LET entry == Head(entries)
             is_preferred == region_code = None \/ entry.iso_3166_1 = region_code
         IN  [i \in 1 .. Len(entry.release_dates) |->
                 [is_preferred |-> is_preferred,
                  parsed |-> _parse_date(entry.release_dates[i].release_date),
                  is_re |-> entry.release_dates[i].type = 5]]
             \o ReleaseVisits(Tail(entries), region_code)

\* the four lists without the parsed >= today test
ReleaseBucket_unfiltered(visits, preferred, re, today_) ==
    LET kept == SelectSeq(visits, LAMBDA v :
                    /\ v.parsed # <<>>
                    /\ v.is_preferred = preferred
                    /\ v.is_re = re)
    IN  [i \in 1 .. Len(kept) |->
            <<kept[i].parsed[1], [date |-> kept[i].parsed[1], is_re_release |-> kept[i].is_re]>>]

\* lists that take a re-release of any date and an original release from today
ReleaseBucket_rerelease_any_date(visits, preferred, re, today_) ==
    LET kept == SelectSeq(visits, LAMBDA v :
                    /\ v.parsed # <<>>
                    /\ v.is_preferred = preferred
                    /\ v.is_re = re
                    /\ (v.is_re \/ v.parsed[1] >= today_))
    IN  [i \in 1 .. Len(kept) |->
            <<kept[i].parsed[1], [date |-> kept[i].parsed[1], is_re_release |-> kept[i].is_re]>>]

\* one of the four lists of _select_release, as <<date, TMDbReleaseInfo>> pairs
ReleaseBucket(visits, preferred, re, today_) ==
    LET kept == SelectSeq(visits, LAMBDA v :
                    /\ v.parsed # <<>>
                    /\ v.is_preferred = preferred
                    /\ v.is_re = re
                    /\ v.parsed[1] >= today_)
    IN  [i \in 1 .. Len(kept) |->
            <<kept[i].parsed[1], [date |-> kept[i].parsed[1], is_re_release |-> kept[i].is_re]>>]

\* region or self.default_region
RegionCode(region, default_region) ==
    IF region # None THEN region ELSE default_region

\* an order that tries every original release before any re-release
BucketOrder_originals_first ==
    << <<TRUE, FALSE>>, <<FALSE, FALSE>>, <<TRUE, TRUE>>, <<FALSE, TRUE>> >>

\* the order in which _select_release tries its four lists
BucketOrder ==
    << <<TRUE, FALSE>>, <<TRUE, TRUE>>, <<FALSE, FALSE>>, <<FALSE, TRUE>> >>

\* TMDbClient._select_release(release_dates_payload, region)
_select_release(entries, region, default_region, today_) ==
    LET visits == ReleaseVisits(entries, RegionCode(region, default_region))
        collections == [i \in 1 .. 4 |->
            ReleaseBucket(visits, BucketOrder[i][1], BucketOrder[i][2], today_)]
        nonempty == {i \in 1 .. 4 : collections[i] # <<>>}
    IN  IF nonempty = {} THEN <<>>
        ELSE LET first == CHOOSE i \in nonempty : \A j \in nonempty : i <= j
             IN  <<SortAsc(collections[first])[1][2]>>

\* TMDbClient._request: the failure it raises, or "ok".  http is the outcome of
\* client.request + raise_for_status: "ok", "status_error" (HTTPStatusError,
\* wrapped in TMDbError) or "network_error" (an httpx.TransportError, which no
\* except clause of _request names).
_request(api_key, http) ==
    IF ~api_key THEN "TMDbError"
    ELSE IF http = "status_error" THEN "TMDbError"
    ELSE IF http = "network_error" THEN "TransportError"
    ELSE "ok"

Raise(exc) == [status |-> exc, movie |-> <<>>]

\* MovieData(...) as built at the end of search_movie
MovieData(candidate, release) ==
    [title |-> "T" \o ToString(candidate.id),
     release_date |-> release.date,
     source |-> "tmdb",
     external_id |-> ToString(candidate.id),
     is_re_release |-> release.is_re_release]

\* a search_movie that reports a title without upcoming release as not found
search_movie_notfound(up, region, default_region, today1, today2) ==
    IF _request(up.api_key, up.search_http) # "ok"
    THEN Raise(_request(up.api_key, up.search_http))
    ELSE IF up.results = <<>> THEN Raise("TMDbNotFound")
    ELSE LET candidate == _select_candidate(up.results, today1)
         IN  IF _request(up.api_key, up.details_http) # "ok"
             THEN Raise(_request(up.api_key, up.details_http))
             ELSE LET release == _select_release(up.entries, region, default_region, today2)
                  IN  IF release = <<>> THEN Raise("TMDbNotFound")
                      ELSE [status |-> "ok", movie |-> <<MovieData(candidate, release[1])>>]

\* TMDbClient.search_movie(title, region=region).  up is what the catalog
\* answers: [api_key, search_http, results, details_http, entries]; today1 and
\* today2 are the date.today() read by _select_candidate and _select_release.
search_movie(up, region, default_region, today1, today2) ==
    IF _request(up.api_key, up.search_http) # "ok"
    THEN Raise(_request(up.api_key, up.search_http))
    ELSE IF up.results = <<>> THEN Raise("TMDbNotFound")
    ELSE LET candidate == _select_candidate(up.results, today1)
         IN  IF _request(up.api_key, up.details_http) # "ok"
             THEN Raise(_request(up.api_key, up.details_http))
             ELSE LET release == _select_release(up.entries, region, default_region, today2)
                  IN  IF release = <<>> THEN Raise("TMDbNoUpcomingRelease")
                      ELSE [status |-> "ok", movie |-> <<MovieData(candidate, release[1])>>]

\* _movie_to_payload / _payload_to_movie of app/services/dday.py: the tool
\* answer carries release_date.isoformat(), and datetime.fromisoformat(str(raw))
\* reads the whole text back (a ValueError cannot arise from isoformat's text).
_movie_to_payload(movie) ==
    [title |-> movie.title, release_date |-> isoformat(movie.release_date),
     source |-> movie.source, external_id |-> movie.external_id,
     is_re_release |-> movie.is_re_release]

_payload_to_movie(payload) ==
    [title |-> payload.title, release_date |-> payload.release_date.day,
     source |-> payload.source, external_id |-> payload.external_id,
     is_re_release |-> payload.is_re_release]

\* TMDbClient.search_tv(title=...): the series resolution, over the same
\* catalog answers as search_movie
search_tv(up, region, default_region, today1, today2) ==
    search_movie(up, region, default_region, today1, today2)

\* what the assistant does with one request: the key is unset ("no_key"), the
\* call raises ("raises"), or it replies with a message ("message") carrying
\* tool_calls, each a name and the title argument the assistant wrote
Llm(reply, tool_calls) == [reply |-> reply, tool_calls |-> tool_calls]
ToolCall(name, title) == [name |-> name, title |-> title]
ResolverCall(op, title) == [op |-> op, title |-> title]
WithCalls(found, calls) ==
    [status |-> found.status, movie |-> found.movie, calls |-> calls]

\* _run_tool(tool_calls): the first call named movie_search or tv_search is
\* invoked (None when there is none); the tool passes settings.tmdb_region as
\* the region and serialises the MovieData it gets
_run_tool(tool_calls, up, default_region, today1, today2) ==
    LET known == {i \in 1 .. Len(tool_calls) :
                    tool_calls[i].name \in {"movie_search", "tv_search"}}
    IN  IF known = {} THEN <<>>
        ELSE LET call == tool_calls[CHOOSE i \in known : \A j \in known : i <= j]
                 found == IF call.name = "movie_search"
                          THEN search_movie(up, default_region, default_region, today1, today2)
                          ELSE search_tv(up, default_region, default_region, today1, today2)
                 op == IF call.name = "movie_search" THEN "search_movie" ELSE "search_tv"
             IN  <<WithCalls(IF found.status # "ok" THEN found
                             ELSE [status |-> "ok",
                                   movie |-> <<_movie_to_payload(found.movie[1])>>],
                             <<ResolverCall(op, call.title)>>)>>

\* a lookup that resolves the raw query first and asks the assistant afterwards
orchestrate_movie_lookup_twice(user_query, llm, up, default_region, today1, today2) ==
    LET direct == WithCalls(search_movie(up, None, default_region, today1, today2),
                            <<ResolverCall("search_movie", user_query)>>)
    IN  IF llm.reply \in {"no_key", "raises"} THEN direct
        ELSE LET payload == _run_tool(llm.tool_calls, up, default_region, today1, today2)
             IN  IF payload = <<>> THEN direct
                 ELSE IF payload[1].status # "ok"
                 THEN WithCalls(payload[1], direct.calls \o payload[1].calls)
                 ELSE WithCalls([status |-> "ok",
                                 movie |-> <<_payload_to_movie(payload[1].movie[1])>>],
                                direct.calls \o payload[1].calls)

\* orchestrate_movie_lookup(user_query): the outcome of the lookup and the
\* resolver calls it made, in order
orchestrate_movie_lookup(user_query, llm, up, default_region, today1, today2) ==
    LET direct == WithCalls(search_movie(up, None, default_region, today1, today2),
                            <<ResolverCall("search_movie", user_query)>>)
    IN  IF llm.reply \in {"no_key", "raises"} THEN direct
        ELSE LET payload == _run_tool(llm.tool_calls, up, default_region, today1, today2)
             IN  IF payload = <<>> THEN direct
                 ELSE IF payload[1].status # "ok" THEN payload[1]
                 ELSE WithCalls([status |-> "ok",
                                 movie |-> <<_payload_to_movie(payload[1].movie[1])>>],
                                payload[1].calls)

\* ------------------------------------------- app/services/chat_orchestrator.py
\* one event of llm.astream_events: a streamed chunk (with a tool call in it,
\* with text in it, or both), the end of the model run with its output (<<>>
\* when the event carries none), or the start of a tool
LlmEvent(kind, tool_call, text, output) ==
    [event |-> kind, tool_call |-> tool_call, text |-> text, output |-> output]
AiMessage(tool_calls, text) == [tool_calls |-> tool_calls, text |-> text]
\* the assistant of one chat: "no_key", or "stream" with the events its stream
\* yields and whether the stream then raises
ChatLlm(reply, stream, raises) == [reply |-> reply, stream |-> stream, raises |-> raises]

OrchEvent(type) == [type |-> type, movie |-> <<>>]
MovieEvent(movie) == [type |-> "movie", movie |-> <<movie>>]
Orch(events, raised, calls) == [events |-> events, raised |-> raised, calls |-> calls]

\* the async for loop over llm.astream_events (lines 69-85), from event i on:
\* the events yielded and the last on_chat_model_end output seen
RECURSIVE StreamLoop(_, _, _, _, _)
StreamLoop(stream, i, tool_started, yielded, final_ai_message) ==
    IF i > Len(stream) THEN [yielded |-> yielded, final_ai_message |-> final_ai_message]
    ELSE LET e == stream[i]
         IN  IF e.event = "on_chat_model_stream"
             THEN LET starts == e.tool_call /\ ~tool_started
                      y1 == IF starts THEN Append(yielded, OrchEvent("tool_started"))
                            ELSE yielded
                      y2 == IF e.text THEN Append(y1, OrchEvent("token")) ELSE y1
                  IN  StreamLoop(stream, i + 1, tool_started \/ starts, y2, final_ai_message)
             ELSE IF e.event = "on_chat_model_end"
             THEN StreamLoop(stream, i + 1, tool_started, yielded, e.output)
             ELSE IF e.event = "on_tool_start"
             THEN StreamLoop(stream, i + 1, tool_started,
                             Append(yielded, OrchEvent("tool_started")), final_ai_message)
             ELSE StreamLoop(stream, i + 1, tool_started, yielded, final_ai_message)

\* _extract_tool_call(message): the first tool call whose name is in TOOL_MAP
_extract_tool_call(message) ==
    LET known == {i \in 1 .. Len(message.tool_calls) :
                    message.tool_calls[i].name \in {"movie_search", "tv_search"}}
    IN  IF known = {} THEN <<>>
        ELSE <<message.tool_calls[CHOOSE i \in known : \A j \in known : i <= j]>>

\* the three events that close a run: the movie (when there is one), the
\* sentence as a token and as the final message
Closing(movie) ==
    (IF movie = <<>> THEN <<>> ELSE <<MovieEvent(movie[1])>>)
        \o <<OrchEvent("token"), OrchEvent("final")>>

\* run_chat_orchestrator_events(user_query): the events the generator yields
\* in order, the exception that ends it ("" when it returns) and the resolver
\* calls it made
run_chat_orchestrator_events(user_query, llm, up, default_region, today_) ==
    LET analysis == <<OrchEvent("analysis")>>
    IN  IF llm.reply = "no_key"
        THEN LET found == search_movie(up, None, default_region, today_, today_)
                 calls == <<ResolverCall("search_movie", user_query)>>
                 started == analysis \o <<OrchEvent("tool_started")>>
             IN  IF found.status # "ok" THEN Orch(started, found.status, calls)
                 ELSE Orch(started \o Closing(found.movie), "", calls)
        ELSE LET loop == StreamLoop(llm.stream, 1, FALSE, analysis, <<>>)
             IN  IF llm.raises THEN Orch(loop.yielded, "Exception", <<>>)
                 ELSE IF loop.final_ai_message = <<>>
                 THEN Orch(loop.yielded \o Closing(<<>>), "", <<>>)
                 ELSE LET tool_call == _extract_tool_call(loop.final_ai_message[1])
                      IN  IF tool_call = <<>>
                          THEN Orch(loop.yielded \o Closing(<<>>), "", <<>>)
                          ELSE IF tool_call[1].name = "movie_search"
                          THEN LET found == search_movie(up, default_region, default_region,
                                                         today_, today_)
                                   calls == <<ResolverCall("search_movie", tool_call[1].title)>>
                               IN  IF found.status # "ok"
                                   THEN Orch(loop.yielded, found.status, calls)
                                   ELSE Orch(loop.yielded \o Closing(
                                                <<_payload_to_movie(_movie_to_payload(
                                                    found.movie[1]))>>), "", calls)
                          ELSE LET found == search_tv(up, default_region, default_region,
                                                      today_, today_)
                                   calls == <<ResolverCall("search_tv", tool_call[1].title)>>
                               IN  IF found.status # "ok"
                                   THEN Orch(loop.yielded, found.status, calls)
                                   ELSE Orch(loop.yielded \o Closing(<<>>), "", calls)

\* ---------------------------------------------------------------- app/main.py
\* a handler that tests payload.query as it came
strip_nothing(q) == q

\* str.strip() of the query, a sequence of characters
strip(q) ==
    LET inked == {i \in 1 .. Len(q) : q[i] # " "}
    IN  IF inked = {} THEN <<>>
        ELSE SubSeq(q, CHOOSE i \in inked : \A j \in inked : i <= j,
                       CHOOSE i \in inked : \A j \in inked : i >= j)

\* a _compute_dday that counts the days since a past release with their sign
_compute_dday_signed(release_date, today_) ==
    LET delta == release_date - today_
    IN  IF delta > 0 THEN "D-" \o ToString(delta)
        ELSE IF delta = 0 THEN "D-DAY"
        ELSE "D+" \o ToString(delta)

\* _compute_dday(release_date), with date.today() = today_
_compute_dday(release_date, today_) ==
    LET delta == release_date - today_
    IN  IF delta > 0 THEN "D-" \o ToString(delta)
        ELSE IF delta = 0 THEN "D-DAY"
        ELSE "D+" \o ToString(IF delta < 0 THEN -delta ELSE delta)

\* the message literals of upsert_dday and confirm_dday, as Unicode code points
MsgAlreadyWaiting ==
    <<51060, 48120, 32, 49436, 47196, 32, 44592, 45796, 47532, 44256, 32, 51080,
      45716, 32, 51089, 54408, 51077, 45768, 45796, 33>>
MsgAlreadyRegistered ==
    <<51060, 48120, 32, 46321, 47197, 46108, 32, 44060, 48393, 51068, 51077, 45768,
      45796, 46, 32, 47784, 46160, 32, 54632, 44760, 32, 44592, 45796, 47532, 44256,
      32, 51080, 50612, 50836, 46>>
MsgNewDDay ==
    <<49352, 47196, 50868, 32, 68, 45, 68, 97, 121, 47484, 32, 44592, 47197, 54664,
      49845, 45768, 45796, 46>>

\* except clauses that name the base class TMDbError first
StatusOf_base_first(exc) ==
    IF exc \in {"TMDbError", "TMDbNotFound", "TMDbNoUpcomingRelease"} THEN 502
    ELSE 500

\* the except clauses of upsert_dday; an exception they do not name leaves the
\* handler and the framework answers 500
StatusOf(exc) ==
    IF exc = "TMDbNotFound" THEN 404
    ELSE IF exc = "TMDbNoUpcomingRelease" THEN 400
    ELSE IF exc = "TMDbError" THEN 502
    ELSE 500

\* ------------------------------------------------------------------ the store
\* DDayRepository over one session: the session reads the committed rows and
\* the rows it has flushed itself.
get_movie_by_source_and_id(rows, source, external_id) ==
    LET hit == {m \in rows : m.source = source /\ m.external_id = external_id}
    IN  IF hit = {} THEN <<>> ELSE <<CHOOSE m \in hit : TRUE>>

get_user_dday(rows, user_id, movie_id) ==
    LET hit == {d \in rows : d.user_id = user_id /\ d.movie_id = movie_id}
    IN  IF hit = {} THEN <<>> ELSE <<CHOOSE d \in hit : TRUE>>

count_waiting_users(rows, movie_id) ==
    Cardinality({d.user_id : d \in {x \in rows : x.movie_id = movie_id}})

\* a Movie table without its unique constraint
MovieKeyTaken_unconstrained(rows, source, external_id) == FALSE

\* UniqueConstraint("source", "external_id"): an insert of a taken pair fails
MovieKeyTaken(rows, source, external_id) ==
    \E m \in rows : m.source = source /\ m.external_id = external_id

\* a UserDDay table that takes any number of rows for one (user, Movie) pair
UserDDayKeyTaken_unconstrained(rows, user_id, movie_id) == FALSE

\* the (user, MediaRecord) pair of a WaitEntry is unique in the store
UserDDayKeyTaken(rows, user_id, movie_id) ==
    \E d \in rows : d.user_id = user_id /\ d.movie_id = movie_id

\* the smallest row id no committed or flushed row carries
FreshId(used) == CHOOSE i \in 1 .. Cardinality(used) + 1 :
    i \notin used /\ \A j \in 1 .. i - 1 : j \in used

\* DDayRepository.list_user_ddays(session, user_id): the user's (UserDDay,
\* Movie) pairs, oldest entry first
RECURSIVE SortById(_)
SortById(rows) ==
    IF rows = {} THEN <<>>
    ELSE LET first == CHOOSE d \in rows : \A e \in rows : d.id <= e.id
         IN  <<first>> \o SortById(rows \ {first})

list_user_ddays(movie_rows, dday_rows, user_id) ==
    LET mine == SortById({d \in dday_rows : d.user_id = user_id})
    IN  [i \in 1 .. Len(mine) |->
            [dday |-> mine[i],
             movie |-> CHOOSE m \in movie_rows : m.id = mine[i].movie_id]]

\* a view that returns the label cached in the UserDDay row
_dday_to_response_cached_label(rows, movie, user_dday, message, today_) ==
    [name |-> user_dday.query_name,
     movie_title |-> movie.title,
     release_date |-> movie.release_date,
     dday |-> user_dday.dday_label,
     waiting_count |-> count_waiting_users(rows, movie.id),
     message |-> message]

\* a view whose count is the default of DDayResponse.waiting_count
_dday_to_response_default_count(rows, movie, user_dday, message, today_) ==
    [name |-> user_dday.query_name,
     movie_title |-> movie.title,
     release_date |-> movie.release_date,
     dday |-> _compute_dday(movie.release_date, today_),
     waiting_count |-> 1,
     message |-> message]

\* _dday_to_response(session, movie, user_dday, message=message)
_dday_to_response(rows, movie, user_dday, message, today_) ==
    [name |-> user_dday.query_name,
     movie_title |-> movie.title,
     release_date |-> movie.release_date,
     dday |-> _compute_dday(movie.release_date, today_),
     waiting_count |-> count_waiting_users(rows, movie.id),
     message |-> message]

\* _sse_event(event, payload): the event name, and of the payload the view
\* of a dday event and the waiting_count of a confirmation_required event
SseView ==
    [name |-> <<>>, movie_title |-> "", release_date |-> 0, dday |-> "",
     waiting_count |-> 0, message |-> <<>>]
_sse_event(event) == [event |-> event, view |-> SseView, waiting_count |-> 0]
MsgStreamAlready ==
    <<51060, 48120, 32, 46321, 47197, 46108, 32, 46356, 45936, 51060, 51077, 45768,
      45796, 46, 32, 44288, 47144, 32, 49352, 47196, 50868, 32, 49548, 49885,
      51008, 32, 50672, 46041, 32, 51456, 48708, 32, 51473, 51077, 45768, 45796, 46>>

\* a movie branch that proposes every film with a waiting count of 0
MovieBranch_zero_count(movie_rows, dday_rows, user_id, movie, today_) ==
    LET existing_movie == get_movie_by_source_and_id(movie_rows, movie.source,
                                                     movie.external_id)
        existing_dday == IF existing_movie = <<>> THEN <<>>
                         ELSE get_user_dday(dday_rows, user_id, existing_movie[1].id)
    IN  <<_sse_event("tool_result")>> \o
        (IF existing_dday # <<>>
         THEN <<[_sse_event("dday") EXCEPT
                    !.view = _dday_to_response(dday_rows, existing_movie[1],
                                 existing_dday[1], MsgStreamAlready, today_)]>>
         ELSE <<_sse_event("confirmation_required")>>)

\* the elif etype in {"movie", "tv"} branch of event_stream (lines 271-316):
\* tool_result, then the user's dday view or a confirmation_required proposal
\* with the present count; nothing is written
MovieBranch(movie_rows, dday_rows, user_id, movie, today_) ==
    LET existing_movie == get_movie_by_source_and_id(movie_rows, movie.source,
                                                     movie.external_id)
        existing_dday == IF existing_movie = <<>> THEN <<>>
                         ELSE get_user_dday(dday_rows, user_id, existing_movie[1].id)
    IN  <<_sse_event("tool_result")>> \o
        (IF existing_dday # <<>>
         THEN <<[_sse_event("dday") EXCEPT
                    !.view = _dday_to_response(dday_rows, existing_movie[1],
                                 existing_dday[1], MsgStreamAlready, today_)]>>
         ELSE <<[_sse_event("confirmation_required") EXCEPT
                    !.waiting_count =
                        IF existing_movie # <<>>
                        THEN count_waiting_users(dday_rows, existing_movie[1].id)
                        ELSE 0]>>)

\* the async for loop of event_stream (lines 262-326) from event i on: the SSE
\* events sent and whether the final event was handled (the loop breaks there)
RECURSIVE EventLoop(_, _, _, _, _, _, _)
EventLoop(events, i, sent, movie_rows, dday_rows, user_id, today_) ==
    IF i > Len(events) THEN [sent |-> sent, handled_final |-> FALSE]
    ELSE LET etype == events[i].type
         IN  IF etype = "final"
             THEN [sent |-> Append(sent, _sse_event("assistant_message")),
                   handled_final |-> TRUE]
             ELSE EventLoop(events, i + 1,
                    IF etype \in {"analysis", "tool_started", "token"}
                    THEN Append(sent, _sse_event(etype))
                    ELSE IF etype \in {"movie", "tv"}
                    THEN sent \o MovieBranch(movie_rows, dday_rows, user_id,
                                             events[i].movie[1], today_)
                    ELSE sent,
                    movie_rows, dday_rows, user_id, today_)

\* an event_stream whose end event is sent after the loop instead of in finally
event_stream_end_on_success(orch, movie_rows, dday_rows, user_id, today_) ==
    LET loop == EventLoop(orch.events, 1, <<_sse_event("start")>>,
                          movie_rows, dday_rows, user_id, today_)
    IN  IF loop.handled_final THEN Append(loop.sent, _sse_event("end"))
        ELSE IF orch.raised = ""
        THEN loop.sent \o <<_sse_event("token"), _sse_event("assistant_message"),
                            _sse_event("end")>>
        ELSE IF orch.raised \in {"TMDbNotFound", "TMDbNoUpcomingRelease"}
        THEN Append(loop.sent, _sse_event("assistant_message"))
        ELSE Append(loop.sent, _sse_event("error"))

\* an event_stream that answers the catalog's exceptions only
event_stream_tmdb_only(orch, movie_rows, dday_rows, user_id, today_) ==
    LET loop == EventLoop(orch.events, 1, <<_sse_event("start")>>,
                          movie_rows, dday_rows, user_id, today_)
        body == IF loop.handled_final THEN loop.sent
                ELSE IF orch.raised = ""
                THEN loop.sent \o <<_sse_event("token"), _sse_event("assistant_message")>>
                ELSE IF orch.raised \in {"TMDbNotFound", "TMDbNoUpcomingRelease"}
                THEN Append(loop.sent, _sse_event("assistant_message"))
                ELSE IF orch.raised = "TMDbError"
                THEN Append(loop.sent, _sse_event("error"))
                ELSE loop.sent
    IN  Append(body, _sse_event("end"))

\* event_stream() (lines 258-349): all SSE events of one stream, in order
event_stream(orch, movie_rows, dday_rows, user_id, today_) ==
    LET loop == EventLoop(orch.events, 1, <<_sse_event("start")>>,
                          movie_rows, dday_rows, user_id, today_)
        body == IF loop.handled_final THEN loop.sent
                ELSE IF orch.raised = ""
                THEN loop.sent \o <<_sse_event("token"), _sse_event("assistant_message")>>
                ELSE IF orch.raised \in {"TMDbNotFound", "TMDbNoUpcomingRelease"}
                THEN Append(loop.sent, _sse_event("assistant_message"))
                ELSE Append(loop.sent, _sse_event("error"))
    IN  Append(body, _sse_event("end"))

\* LongestDDayResponse(...)
LongestDDayResponse(movie, today_) ==
    [movie_title |-> movie.title, release_date |-> movie.release_date,
     dday |-> _compute_dday(movie.release_date, today_)]

\* a longest D-Day that also counts the releases that have passed
get_longest_dday_any_date(records, today_) ==
    LET candidates == {i \in 1 .. Len(records) : TRUE}
    IN  IF candidates = {} THEN <<>>
        ELSE LET best == CHOOSE i \in candidates :
                    \A j \in candidates :
                        \/ records[j].movie.release_date < records[i].movie.release_date
                        \/ (records[j].movie.release_date = records[i].movie.release_date
                            /\ i <= j)
             IN  <<LongestDDayResponse(records[best].movie, today_)>>

\* get_longest_dday over records = repo.list_user_ddays(session, user_id):
\* the candidates have delta >= 0 and max() keeps the first of the largest
get_longest_dday(records, today_) ==
    LET candidates == {i \in 1 .. Len(records) :
                          records[i].movie.release_date - today_ >= 0}
    IN  IF candidates = {} THEN <<>>
        ELSE LET best == CHOOSE i \in candidates :
                    \A j \in candidates :
                        \/ records[j].movie.release_date < records[i].movie.release_date
                        \/ (records[j].movie.release_date = records[i].movie.release_date
                            /\ i <= j)
             IN  <<LongestDDayResponse(records[best].movie, today_)>>

\* ------------------------------------------------------------ input spaces
\* search results: candidate i of the answer has id i
CandidateRaws == {RawNone, RawEmpty, RawBad} \cup {RawDate(d) : d \in Days}
WithIds(raws) == [i \in 1 .. Len(raws) |-> [id |-> i, release_date |-> raws[i]]]
ResultLists(n) == {WithIds(raws) : raws \in SeqsUpTo(CandidateRaws, n)}

\* release_dates payload: one entry per country, each a list of dated releases
\* the dates a release entry may carry; with today = 1, day 11 is ten days out
ReleaseDays == (0 .. MaxDay - 1) \cup {11}
InfoRaws == {RawBad} \cup {RawDateTime(d) : d \in ReleaseDays}
Infos == [release_date : InfoRaws, type : ReleaseTypes]
Entries(n) == [iso_3166_1 : Regions, release_dates : SeqsUpTo(Infos, n)]
Payloads(n) ==
    {<<>>} \cup {<<e>> : e \in Entries(n)}
           \cup {p \in Entries(n) \X Entries(n) : p[1].iso_3166_1 # p[2].iso_3166_1}

HttpErrors == {"status_error", "network_error"}
Upstream(api_key, search_http, results, details_http, entries) ==
    [api_key |-> api_key, search_http |-> search_http, results |-> results,
     details_http |-> details_http, entries |-> entries]

\* catalog answers to one search_movie call; what the call never reads is left empty
Upstreams(nResults, nInfos) ==
    {Upstream(FALSE, "ok", <<>>, "ok", <<>>)}
    \cup {Upstream(TRUE, h, <<>>, "ok", <<>>) : h \in HttpErrors \cup {"ok"}}
    \cup {Upstream(TRUE, "ok", r, h, <<>>) :
            r \in ResultLists(nResults) \ {<<>>}, h \in HttpErrors}
    \cup {Upstream(TRUE, "ok", r, "ok", e) :
            r \in ResultLists(nResults) \ {<<>>}, e \in Payloads(nInfos)}

RegionArgs == {None, "US"}
DefaultRegions == {None, "KR"}

\* ------------------------------------------------------- service input spaces
Users == {"u1", "u2"}
Workers == {"w1", "w2"}
Queries == {<<" ", " ">>, <<" ", "a", " ">>, <<"b">>}
Assistants == {Llm("no_key", <<>>), Llm("message", <<ToolCall("movie_search", <<"a">>)>>)}
DefaultRegion == "KR"

KR(infos) == [iso_3166_1 |-> "KR", release_dates |-> infos]
Info(raw, type) == [release_date |-> raw, type |-> type]

\* what the catalog may answer to a title: a film opening on day 3, a search
\* with two candidates of which the second opens on day 11, no match, a film
\* whose releases have passed, a rejected call, an unreachable catalog, a
\* service without TMDB_API_KEY
ServiceUpstreams ==
    {Upstream(TRUE, "ok", WithIds(<<RawDate(3)>>), "ok", <<KR(<<Info(RawDateTime(3), 3)>>)>>),
     Upstream(TRUE, "ok", WithIds(<<RawDate(0), RawDate(11)>>), "ok",
              <<KR(<<Info(RawDateTime(0), 3), Info(RawDateTime(11), 5)>>)>>),
     Upstream(TRUE, "ok", <<>>, "ok", <<>>),
     Upstream(TRUE, "ok", WithIds(<<RawDate(0)>>), "ok", <<KR(<<Info(RawDateTime(0), 3)>>)>>),
     Upstream(TRUE, "status_error", <<>>, "ok", <<>>),
     Upstream(TRUE, "network_error", <<>>, "ok", <<>>),
     Upstream(FALSE, "ok", <<>>, "ok", <<>>)}

\* the MovieConfirmRequest bodies a client sends: a proposal of an earlier
\* confirmation_required event, under the name the user typed
ConfirmPayloads ==
    {[query_name |-> <<"a">>, movie |-> found.movie[1]] :
        found \in {f \in {orchestrate_movie_lookup(<<"a">>, Llm("no_key", <<>>), up, DefaultRegion, 1, 1) :
                            up \in ServiceUpstreams} : f.status = "ok"}}

\* -------------------------------------------------------------------- state
VARIABLES
    today,      \* date.today()
    rcall,      \* the resolver call under study: its inputs and its result
    movies,     \* committed rows of Movie
    ddays,      \* committed rows of UserDDay
    req,        \* the request each worker is handling, with its open session
    history     \* the completed exchanges, oldest first

vars == <<today, rcall, movies, ddays, req, history>>
svc == <<movies, ddays, req, history>>

\* what a request asked of the catalog: the answers the catalog had for it and
\* the resolver calls made, in order
Lookup(up, calls) == [upstream |-> <<up>>, calls |-> calls]
NoLookup == [upstream |-> <<>>, calls |-> <<>>]

NoView ==
    [name |-> <<>>, movie_title |-> "", release_date |-> 0, dday |-> "",
     waiting_count |-> 0, message |-> <<>>]

IdleReq ==
    [pc |-> "idle", endpoint |-> "", user_id |-> "", query |-> <<>>,
     query_name |-> <<>>, lookup |-> NoLookup, movie_data |-> <<>>, existing_movie |-> <<>>,
     user_dday |-> <<>>, message |-> <<>>, new_movies |-> {}, new_ddays |-> {},
     began |-> 0, view |-> NoView, llm |-> ChatLlm("no_key", <<>>, FALSE)]

RIdle ==
    [op |-> "idle", api_key |-> TRUE, search_http |-> "ok", details_http |-> "ok",
     results |-> <<>>, entries |-> <<>>, region |-> None, default_region |-> None,
     release_date |-> 0, today1 |-> 0, today2 |-> 0,
     candidate |-> <<>>, release |-> <<>>, label |-> "", outcome |-> Raise("none"),
     user_query |-> <<>>, llm |-> Llm("no_key", <<>>), calls |-> <<>>,
     user_id |-> "", chat_llm |-> ChatLlm("no_key", <<>>, FALSE), events |-> <<>>]

\* ------------------------------------------------- resolver calls, one by one
CallLabel ==
    /\ rcall.op = "idle"
    /\ \E d \in 0 .. MaxLabelDay, t \in 0 .. MaxLabelDay :
        rcall' = [RIdle EXCEPT !.op = "label", !.release_date = d, !.today1 = t,
                               !.label = calculate_dday_label(d, t)]
    /\ UNCHANGED <<today, svc>>

CallSelectCandidate ==
    /\ rcall.op = "idle"
    /\ \E results \in ResultLists(MaxResults) \ {<<>>} :
        rcall' = [RIdle EXCEPT !.op = "select_candidate", !.results = results,
                               !.today1 = today,
                               !.candidate = <<_select_candidate(results, today)>>]
    /\ UNCHANGED <<today, svc>>

CallSelectRelease ==
    /\ rcall.op = "idle"
    /\ \E entries \in Payloads(MaxInfos), region \in RegionArgs, dflt \in DefaultRegions :
        rcall' = [RIdle EXCEPT !.op = "select_release", !.entries = entries,
                               !.region = region, !.default_region = dflt,
                               !.today2 = today,
                               !.release = _select_release(entries, region, dflt, today)]
    /\ UNCHANGED <<today, svc>>

\* release_dates payloads whose dates may be missing, empty or malformed
ParseInfoRaws == {RawNone, RawEmpty, RawBad, RawDateTime(0), RawDateTime(2)}
ParseEntries(n) ==
    [iso_3166_1 : Regions,
     release_dates : SeqsUpTo([release_date : ParseInfoRaws, type : ReleaseTypes], n)]
ParsePayloads(n) ==
    {<<e>> : e \in ParseEntries(n)}
        \cup {p \in ParseEntries(n) \X ParseEntries(n) : p[1].iso_3166_1 # p[2].iso_3166_1}

\* _select_release over such a payload
CallSelectReleaseParse ==
    /\ rcall.op = "idle"
    /\ \E entries \in ParsePayloads(MaxInfos), region \in RegionArgs, dflt \in DefaultRegions :
        rcall' = [RIdle EXCEPT !.op = "select_release", !.entries = entries,
                               !.region = region, !.default_region = dflt,
                               !.today2 = today,
                               !.release = _select_release(entries, region, dflt, today)]
    /\ UNCHANGED <<today, svc>>

\* midnight may pass between the two date.today() reads of one search_movie
CallSearchMovie ==
    /\ rcall.op = "idle"
    /\ \E up \in Upstreams(MaxResults - 1, MaxInfos - 1),
          region \in RegionArgs, dflt \in DefaultRegions,
          today2 \in {today, today + 1} :
        /\ today2 <= MaxToday
        /\ today' = today2
        /\ rcall' = [RIdle EXCEPT !.op = "search_movie", !.api_key = up.api_key,
                        !.search_http = up.search_http, !.details_http = up.details_http,
                        !.results = up.results, !.entries = up.entries,
                        !.region = region, !.default_region = dflt,
                        !.today1 = today, !.today2 = today2,
                        !.outcome = search_movie(up, region, dflt, today, today2)]
    /\ UNCHANGED svc

\* the replies of the assistant to one lookup: up to MaxToolCalls tool calls,
\* of the two search tools or of a tool the service does not know, with the
\* title as the assistant normalised it
ToolCalls == {ToolCall(name, <<"A">>) : name \in {"movie_search", "tv_search", "web_search"}}
LlmReplies ==
    {Llm("no_key", <<>>), Llm("raises", <<>>)}
    \cup {Llm("message", calls) : calls \in SeqsUpTo(ToolCalls, MaxToolCalls)}

CallLookup ==
    /\ rcall.op = "idle"
    /\ \E user_query \in Queries \ {<<" ", " ">>}, llm \in LlmReplies, up \in ServiceUpstreams :
        LET found == orchestrate_movie_lookup(user_query, llm, up, DefaultRegion, today, today)
        IN  rcall' = [RIdle EXCEPT !.op = "lookup", !.user_query = user_query,
                        !.llm = llm, !.api_key = up.api_key,
                        !.search_http = up.search_http, !.details_http = up.details_http,
                        !.results = up.results, !.entries = up.entries,
                        !.default_region = DefaultRegion,
                        !.today1 = today, !.today2 = today,
                        !.calls = found.calls,
                        !.outcome = [status |-> found.status, movie |-> found.movie]]
    /\ UNCHANGED <<today, svc>>

Return ==
    /\ rcall.op # "idle"
    /\ rcall' = RIdle
    /\ UNCHANGED <<today, svc>>

Tick ==
    /\ rcall.op = "idle"
    /\ today < MaxToday
    /\ today' = today + 1
    /\ UNCHANGED <<rcall, svc>>

Init ==
    /\ today = 1
    /\ rcall = RIdle
    /\ movies = {}
    /\ ddays = {}
    /\ req = [w \in Workers |-> IdleReq]
    /\ history = <<>>

SpecLabel == Init /\ [][CallLabel \/ Return]_vars
SpecCandidate == Init /\ [][CallSelectCandidate \/ Return \/ Tick]_vars
SpecRelease == Init /\ [][CallSelectRelease \/ Return \/ Tick]_vars
SpecSearch == Init /\ [][CallSearchMovie \/ Return \/ Tick]_vars
SpecParse == Init /\ [][CallSelectCandidate \/ CallSelectReleaseParse \/ Return \/ Tick]_vars
SpecLookup == Init /\ [][CallLookup \/ Return \/ Tick]_vars

\* ------------------------------------------------------------ the handlers
InFlight == {w \in Workers : req[w].pc # "idle"}

\* a request goes to an idle worker; w1 is tried first
CanBegin(w) ==
    /\ req[w].pc = "idle"
    /\ w = "w2" => req["w1"].pc # "idle"
    /\ Len(history) + Cardinality(InFlight) < MaxRequests

\* rows the session of w reads: committed rows and its own flushed rows
VisibleMovies(w) == movies \cup req[w].new_movies
VisibleDDays(w) == ddays \cup req[w].new_ddays
FlushedElsewhereMovies(w) == UNION {req[v].new_movies : v \in Workers \ {w}}
FlushedElsewhereDDays(w) == UNION {req[v].new_ddays : v \in Workers \ {w}}
UsedMovieIds == {m.id : m \in movies \cup UNION {req[v].new_movies : v \in Workers}}
UsedDDayIds == {d.id : d \in ddays \cup UNION {req[v].new_ddays : v \in Workers}}

\* one completed exchange: the request, the status and, for 200, the view
Exchange(endpoint, user_id, query, lookup, movie_data, began, status, raised, movie_id, created, view) ==
    [endpoint |-> endpoint, user_id |-> user_id, query |-> query,
     upstream |-> lookup.upstream, calls |-> lookup.calls,
     events |-> <<>>, views |-> <<>>, at |-> today,
     source |-> IF movie_data = <<>> THEN "" ELSE movie_data[1].source,
     external_id |-> IF movie_data = <<>> THEN "" ELSE movie_data[1].external_id,
     began |-> began, status |-> status, raised |-> raised,
     movie_id |-> movie_id, created |-> created, view |-> view]

\* upsert_dday up to the first store call: the 422 of an empty query, the
\* resolution and the statuses of its failures.  get_session commits nothing
\* when the handler raises here.
BeginDDay(w) ==
    /\ CanBegin(w)
    /\ \E user_id \in Users, query \in Queries, llm \in Assistants, up \in ServiceUpstreams :
        LET normalized_name == strip(query)
            found == orchestrate_movie_lookup(query, llm, up, DefaultRegion, today, today)
        IN  IF normalized_name = <<>>
            THEN /\ history' = Append(history, Exchange("dday", user_id, query, NoLookup, <<>>,
                        Len(history), 422, "HTTPException", 0, FALSE, NoView))
                 /\ UNCHANGED req
            ELSE IF found.status # "ok"
            THEN /\ history' = Append(history, Exchange("dday", user_id, query,
                        Lookup(up, found.calls), <<>>,
                        Len(history), StatusOf(found.status), found.status, 0, FALSE, NoView))
                 /\ UNCHANGED req
            ELSE /\ req' = [req EXCEPT ![w] = [IdleReq EXCEPT
                        !.pc = "get_movie", !.endpoint = "dday", !.user_id = user_id,
                        !.query = query, !.query_name = normalized_name,
                        !.lookup = Lookup(up, found.calls),
                        !.movie_data = found.movie, !.began = Len(history)]]
                 /\ UNCHANGED history
    /\ UNCHANGED <<today, rcall, movies, ddays>>

\* confirm_dday up to its first store call
BeginConfirm(w) ==
    /\ CanBegin(w)
    /\ \E user_id \in Users, payload \in ConfirmPayloads :
        req' = [req EXCEPT ![w] = [IdleReq EXCEPT
                    !.pc = "get_movie", !.endpoint = "confirm", !.user_id = user_id,
                    !.query = payload.query_name, !.query_name = payload.query_name,
                    !.movie_data = <<payload.movie>>, !.began = Len(history)]]
    /\ UNCHANGED <<today, rcall, movies, ddays, history>>

\* a handler that inserts the Movie without looking for it
GetMovie_always_create(w) ==
    /\ req[w].pc = "get_movie"
    /\ req' = [req EXCEPT ![w].pc = "create_movie"]
    /\ UNCHANGED <<today, rcall, movies, ddays, history>>

\* a handler that brings a stored Movie up to date with the new resolution
GetMovie_overwrite(w) ==
    /\ req[w].pc = "get_movie"
    /\ LET existing_movie == get_movie_by_source_and_id(VisibleMovies(w),
                req[w].movie_data[1].source, req[w].movie_data[1].external_id)
           updated == [existing_movie[1] EXCEPT
                          !.release_date = req[w].movie_data[1].release_date]
       IN  IF existing_movie # <<>>
           THEN /\ movies' = (movies \ {existing_movie[1]}) \cup {updated}
                /\ req' = [req EXCEPT ![w].existing_movie = <<updated>>,
                                       ![w].pc = "get_user_dday"]
           ELSE /\ movies' = movies
                /\ req' = [req EXCEPT ![w].existing_movie = existing_movie,
                                       ![w].pc = "create_movie"]
    /\ UNCHANGED <<today, rcall, ddays, history>>

\* existing_movie = repo.get_movie_by_source_and_id(...) and the branch on it
GetMovie(w) ==
    /\ req[w].pc = "get_movie"
    /\ LET existing_movie == get_movie_by_source_and_id(VisibleMovies(w),
                req[w].movie_data[1].source, req[w].movie_data[1].external_id)
       IN  req' = [req EXCEPT ![w].existing_movie = existing_movie,
                              ![w].pc = IF existing_movie # <<>> THEN "get_user_dday"
                                        ELSE "create_movie"]
    /\ UNCHANGED <<today, rcall, movies, ddays, history>>

\* a get_session that commits what the failed handler had flushed
Abort_commit(w, raised) ==
    /\ history' = Append(history, Exchange(req[w].endpoint, req[w].user_id, req[w].query,
            req[w].lookup, req[w].movie_data, req[w].began, StatusOf(raised), raised, 0, FALSE, NoView))
    /\ req' = [req EXCEPT ![w] = IdleReq]
    /\ movies' = movies \cup req[w].new_movies
    /\ ddays' = ddays \cup req[w].new_ddays

\* the handler raises: get_session rolls the session back and the framework
\* answers 500
Abort(w, raised) ==
    /\ history' = Append(history, Exchange(req[w].endpoint, req[w].user_id, req[w].query,
            req[w].lookup, req[w].movie_data, req[w].began, StatusOf(raised), raised, 0, FALSE, NoView))
    /\ req' = [req EXCEPT ![w] = IdleReq]
    /\ UNCHANGED <<movies, ddays>>

\* repo.create_movie(...): the insert waits for a session that has flushed the
\* same (source, external_id) and fails once that pair is committed; neither
\* handler catches the failure
CreateMovie(w) ==
    /\ req[w].pc = "create_movie"
    /\ LET movie_data == req[w].movie_data[1]
           row == [id |-> FreshId(UsedMovieIds), title |-> movie_data.title,
                   release_date |-> movie_data.release_date,
                   source |-> movie_data.source, external_id |-> movie_data.external_id,
                   is_re_release |-> movie_data.is_re_release]
       IN  /\ ~MovieKeyTaken(FlushedElsewhereMovies(w), movie_data.source, movie_data.external_id)
           /\ IF MovieKeyTaken(movies, movie_data.source, movie_data.external_id)
              THEN Abort(w, "IntegrityError:movie")
              ELSE /\ req' = [req EXCEPT ![w].new_movies = @ \cup {row},
                                         ![w].existing_movie = <<row>>,
                                         ![w].pc = IF req[w].endpoint = "dday"
                                                   THEN "create_user_dday"
                                                   ELSE "get_user_dday"]
                   /\ UNCHANGED <<movies, ddays, history>>
    /\ UNCHANGED <<today, rcall>>

\* a handler that never looks for the user's entry
GetUserDDay_always_create(w) ==
    /\ req[w].pc = "get_user_dday"
    /\ req' = [req EXCEPT ![w].pc = "create_user_dday"]
    /\ UNCHANGED <<today, rcall, movies, ddays, history>>

\* existing_dday = repo.get_user_dday(session, user_id, existing_movie.id) and
\* the branch on it, with the message of the handler
GetUserDDay(w) ==
    /\ req[w].pc = "get_user_dday"
    /\ LET existing_dday == get_user_dday(VisibleDDays(w), req[w].user_id,
                                          req[w].existing_movie[1].id)
       IN  IF existing_dday # <<>>
           THEN req' = [req EXCEPT ![w].user_dday = existing_dday,
                                   ![w].message = IF req[w].endpoint = "dday"
                                                  THEN MsgAlreadyWaiting
                                                  ELSE MsgAlreadyRegistered,
                                   ![w].pc = "respond"]
           ELSE req' = [req EXCEPT ![w].pc = "create_user_dday"]
    /\ UNCHANGED <<today, rcall, movies, ddays, history>>

\* a handler that stores payload.query as it came
CreateUserDDay_raw_query(w) ==
    /\ req[w].pc = "create_user_dday"
    /\ LET movie == req[w].existing_movie[1]
           row == [id |-> FreshId(UsedDDayIds), user_id |-> req[w].user_id,
                   movie_id |-> movie.id, query_name |-> req[w].query,
                   dday_label |-> _compute_dday(movie.release_date, today)]
       IN  /\ ~UserDDayKeyTaken(FlushedElsewhereDDays(w), req[w].user_id, movie.id)
           /\ IF UserDDayKeyTaken(ddays, req[w].user_id, movie.id)
              THEN Abort(w, "IntegrityError:user_dday")
              ELSE /\ req' = [req EXCEPT ![w].new_ddays = @ \cup {row},
                                         ![w].user_dday = <<row>>,
                                         ![w].message = MsgNewDDay,
                                         ![w].pc = "respond"]
                   /\ UNCHANGED <<movies, ddays, history>>
    /\ UNCHANGED <<today, rcall>>

\* user_dday = repo.create_user_dday(...)
CreateUserDDay(w) ==
    /\ req[w].pc = "create_user_dday"
    /\ LET movie == req[w].existing_movie[1]
           row == [id |-> FreshId(UsedDDayIds), user_id |-> req[w].user_id,
                   movie_id |-> movie.id, query_name |-> req[w].query_name,
                   dday_label |-> _compute_dday(movie.release_date, today)]
       IN  /\ ~UserDDayKeyTaken(FlushedElsewhereDDays(w), req[w].user_id, movie.id)
           /\ IF UserDDayKeyTaken(ddays, req[w].user_id, movie.id)
              THEN Abort(w, "IntegrityError:user_dday")
              ELSE /\ req' = [req EXCEPT ![w].new_ddays = @ \cup {row},
                                         ![w].user_dday = <<row>>,
                                         ![w].message = MsgNewDDay,
                                         ![w].pc = "respond"]
                   /\ UNCHANGED <<movies, ddays, history>>
    /\ UNCHANGED <<today, rcall>>

\* return _dday_to_response(...): the count is read in the session of w
Respond(w) ==
    /\ req[w].pc = "respond"
    /\ req' = [req EXCEPT ![w].view = _dday_to_response(VisibleDDays(w),
                                req[w].existing_movie[1], req[w].user_dday[1],
                                req[w].message, today),
                          ![w].pc = "commit"]
    /\ UNCHANGED <<today, rcall, movies, ddays, history>>

\* get_session after the handler returned: session.commit(), session.close()
Commit(w) ==
    /\ req[w].pc = "commit"
    /\ history' = Append(history, Exchange(req[w].endpoint, req[w].user_id,
            req[w].query, req[w].lookup, req[w].movie_data, req[w].began, 200, "",
            req[w].existing_movie[1].id, req[w].new_ddays # {}, req[w].view))
    /\ movies' = movies \cup req[w].new_movies
    /\ ddays' = ddays \cup req[w].new_ddays
    /\ req' = [req EXCEPT ![w] = IdleReq]
    /\ UNCHANGED <<today, rcall>>

\* stream_chat up to the StreamingResponse: the 422 of an empty query; the
\* generator has not run yet
BeginChat(w, llms) ==
    /\ CanBegin(w)
    /\ \E user_id \in Users, query \in Queries, llm \in llms, up \in ServiceUpstreams :
        LET normalized == strip(query)
        IN  IF normalized = <<>>
            THEN /\ history' = Append(history, Exchange("chat", user_id, query, NoLookup,
                        <<>>, Len(history), 422, "HTTPException", 0, FALSE, NoView))
                 /\ UNCHANGED req
            ELSE /\ req' = [req EXCEPT ![w] = [IdleReq EXCEPT
                        !.pc = "stream", !.endpoint = "chat", !.user_id = user_id,
                        !.query = query, !.query_name = normalized,
                        !.lookup = Lookup(up, <<>>), !.llm = llm,
                        !.began = Len(history)]]
                 /\ UNCHANGED history
    /\ UNCHANGED <<today, rcall, movies, ddays>>

\* a stream that records the proposal as soon as the film is found
ChatStream_auto_create(w) ==
    /\ req[w].pc = "stream"
    /\ LET orch == run_chat_orchestrator_events(req[w].query, req[w].llm,
                        req[w].lookup.upstream[1], DefaultRegion, today)
           found == {e.movie[1] : e \in {x \in {orch.events[i] : i \in 1 .. Len(orch.events)} :
                                            x.type = "movie"}}
           rows == {[id |-> FreshId(UsedMovieIds), title |-> m.title,
                     release_date |-> m.release_date, source |-> m.source,
                     external_id |-> m.external_id, is_re_release |-> m.is_re_release] :
                        m \in {x \in found : ~MovieKeyTaken(movies, x.source, x.external_id)}}
       IN  /\ movies' = movies \cup rows
           /\ history' = Append(history,
                [Exchange("chat", req[w].user_id, req[w].query,
                          Lookup(req[w].lookup.upstream[1], orch.calls), <<>>,
                          req[w].began, 200, orch.raised, 0, FALSE, NoView)
                 EXCEPT !.events = event_stream(orch, movies', ddays,
                                                req[w].user_id, today)])
    /\ req' = [req EXCEPT ![w] = IdleReq]
    /\ UNCHANGED <<today, rcall, ddays>>

\* the body of the StreamingResponse: event_stream() runs the orchestrator,
\* reads the store in the request's session and sends its events; the exchange
\* keeps them in order
ChatStream(w) ==
    /\ req[w].pc = "stream"
    /\ LET orch == run_chat_orchestrator_events(req[w].query, req[w].llm,
                        req[w].lookup.upstream[1], DefaultRegion, today)
       IN  history' = Append(history,
                [Exchange("chat", req[w].user_id, req[w].query,
                          Lookup(req[w].lookup.upstream[1], orch.calls), <<>>,
                          req[w].began, 200, orch.raised, 0, FALSE, NoView)
                 EXCEPT !.events = event_stream(orch, VisibleMovies(w), VisibleDDays(w),
                                                req[w].user_id, today)])
    /\ req' = [req EXCEPT ![w] = IdleReq]
    /\ UNCHANGED <<today, rcall, movies, ddays>>

\* GET /dday: the views of the user's entries
ListDDays ==
    /\ CanBegin("w1")
    /\ \E user_id \in Users :
        LET records == list_user_ddays(movies, ddays, user_id)
        IN  history' = Append(history,
                [Exchange("list", user_id, <<>>, NoLookup, <<>>, Len(history), 200, "",
                          0, FALSE, NoView)
                 EXCEPT !.views = [i \in 1 .. Len(records) |->
                            _dday_to_response(ddays, records[i].movie, records[i].dday,
                                              <<>>, today)]])
    /\ UNCHANGED <<today, rcall, movies, ddays, req>>

\* GET /dday/longest: the answer, or no answer (null)
LongestDDay ==
    /\ CanBegin("w1")
    /\ \E user_id \in Users :
        history' = Append(history,
            [Exchange("longest", user_id, <<>>, NoLookup, <<>>, Len(history), 200, "",
                      0, FALSE, NoView)
             EXCEPT !.views = get_longest_dday(list_user_ddays(movies, ddays, user_id),
                                               today)])
    /\ UNCHANGED <<today, rcall, movies, ddays, req>>

\* midnight
NextDay ==
    /\ InFlight = {}
    /\ today < MaxToday
    /\ today' = today + 1
    /\ UNCHANGED <<rcall, svc>>

Next ==
    \/ \E w \in Workers : BeginDDay(w)
    \/ \E w \in Workers : BeginConfirm(w)
    \/ \E w \in Workers : GetMovie(w)
    \/ \E w \in Workers : CreateMovie(w)
    \/ \E w \in Workers : GetUserDDay(w)
    \/ \E w \in Workers : CreateUserDDay(w)
    \/ \E w \in Workers : Respond(w)
    \/ \E w \in Workers : Commit(w)
    \/ NextDay

Spec == Init /\ [][Next]_vars

\* --------------------------------------------------- the stream and the reads
\* what the assistant's stream may yield: chunks and tool starts, then the end
\* of the run with its output (a movie_search call, a tv_search call, text
\* only, nothing), no end event at all, or an exception
StreamChunks ==
    {LlmEvent("on_chat_model_stream", tool_call, text, <<>>) :
        tool_call \in BOOLEAN, text \in BOOLEAN}
        \cup {LlmEvent("on_tool_start", FALSE, FALSE, <<>>)}
StreamEnds ==
    {<<LlmEvent("on_chat_model_end", FALSE, FALSE, <<AiMessage(calls, text)>>)>> :
        calls \in {<<>>, <<ToolCall("movie_search", <<"A">>)>>,
                   <<ToolCall("tv_search", <<"A">>)>>},
        text \in BOOLEAN}
        \cup {<<LlmEvent("on_chat_model_end", FALSE, FALSE, <<>>)>>, <<>>}
ChatLlms(n) ==
    {ChatLlm("no_key", <<>>, FALSE)}
    \cup {ChatLlm("stream", body \o ending, raises) :
            body \in SeqsUpTo(StreamChunks, n), ending \in StreamEnds,
            raises \in BOOLEAN}

\* the assistants of the service as a whole: no key, and a tool call
\* announced in the stream
AppChatLlms ==
    {ChatLlm("no_key", <<>>, FALSE),
     ChatLlm("stream",
             <<LlmEvent("on_chat_model_stream", TRUE, FALSE, <<>>),
               LlmEvent("on_chat_model_end", FALSE, FALSE,
                        <<AiMessage(<<ToolCall("movie_search", <<"A">>)>>, FALSE)>>)>>,
             FALSE)}

\* stores left by earlier POST /dday/confirm requests: Movie rows, and for a
\* set of (user, Movie) pairs the UserDDay rows, recorded on day 0
SeedMovie(id, release_date, is_re_release) ==
    [id |-> id, title |-> "T" \o ToString(id), release_date |-> release_date,
     source |-> "tmdb", external_id |-> ToString(id), is_re_release |-> is_re_release]
SeedMovies ==
    {SeedMovie(1, 3, FALSE), SeedMovie(2, 11, TRUE),
     SeedMovie(3, 1, FALSE), SeedMovie(4, 3, FALSE)}
RECURSIVE SeedDDays(_, _)
SeedDDays(pairs, next_id) ==
    IF pairs = {} THEN {}
    ELSE LET p == CHOOSE x \in pairs : \A y \in pairs : x[2].id <= y[2].id
         IN  {[id |-> next_id, user_id |-> p[1], movie_id |-> p[2].id,
               query_name |-> <<"a">>,
               dday_label |-> _compute_dday(p[2].release_date, 0)]}
             \cup SeedDDays(pairs \ {p}, next_id + 1)
SeedStores(from) ==
    {[movies |-> {p[2] : p \in pairs}, ddays |-> SeedDDays(pairs, 1)] :
        pairs \in SUBSET (Users \X from)}

InitSeeded(stores) ==
    /\ today = 1
    /\ rcall = RIdle
    /\ \E store \in stores : movies = store.movies /\ ddays = store.ddays
    /\ req = [w \in Workers |-> IdleReq]
    /\ history = <<>>

\* one POST /chat/stream with a non-empty query, start to end
CallStream ==
    /\ rcall.op = "idle"
    /\ \E llm \in ChatLlms(MaxLlmEvents), up \in ServiceUpstreams :
        LET user_id == "u1"
            user_query == <<" ", "a", " ">>
            orch == run_chat_orchestrator_events(user_query, llm, up, DefaultRegion, today)
            found == {k \in 1 .. Len(orch.events) : orch.events[k].type = "movie"}
        IN  rcall' = [RIdle EXCEPT !.op = "stream", !.user_query = user_query,
                        !.user_id = user_id, !.chat_llm = llm, !.api_key = up.api_key,
                        !.search_http = up.search_http, !.details_http = up.details_http,
                        !.results = up.results, !.entries = up.entries,
                        !.today1 = today, !.today2 = today,
                        !.calls = orch.calls,
                        !.outcome =
                            [status |-> orch.raised,
                             movie |-> IF found = {} THEN <<>>
                                       ELSE orch.events[CHOOSE k \in found : TRUE].movie],
                        !.events = event_stream(orch, movies, ddays, user_id, today)]
    /\ UNCHANGED <<today, svc>>

NextApp ==
    \/ Next
    \/ \E w \in Workers : BeginChat(w, AppChatLlms)
    \/ \E w \in Workers : ChatStream(w)
    \/ ListDDays
    \/ LongestDDay

SpecApp == Init /\ [][NextApp]_vars
InitStream == InitSeeded(SeedStores({SeedMovie(1, 3, FALSE), SeedMovie(2, 11, TRUE)}))
SpecStream == InitStream /\ [][CallStream \/ Return \/ Tick]_vars
\* the database fails under repo.create_user_dday (a lost connection): the
\* handler raises with whatever it had flushed
StoreFails(w) ==
    /\ req[w].pc = "create_user_dday"
    /\ Abort(w, "OperationalError")
    /\ UNCHANGED <<today, rcall>>

\* the handlers over a store that may already hold film 1, recorded when the
\* catalog announced it for day 4, and over a database that may fail
NextTx ==
    \/ Next
    \/ \E w \in Workers : StoreFails(w)

InitTx == InitSeeded(SeedStores({SeedMovie(1, 4, FALSE)}))
SpecTx == InitTx /\ [][NextTx]_vars
InitRead == InitSeeded(SeedStores(SeedMovies))
SpecRead == InitRead /\ [][ListDDays \/ LongestDDay \/ NextDay]_vars

\* ------------------------------------------------------------------ claims
SetMin(S) == CHOOSE x \in S : \A y \in S : x <= y
SetMax(S) == CHOOSE x \in S : \A y \in S : x >= y
Parsable(raw) == raw.kind \in {"date", "datetime"}

\* C1: the label of release date d on day t is "D-<n>" when d is n > 0 days
\* after t, "D-DAY" when d = t, "D+<n>" when d is n > 0 days before t, and
\* nothing else.
C1_LabelIsCountdown ==
    rcall.op = "label" =>
        LET d == rcall.release_date
            t == rcall.today1
        IN  \/ \E n \in 1 .. MaxLabelDay : d = t + n /\ rcall.label = "D-" \o ToString(n)
            \/ d = t /\ rcall.label = "D-DAY"
            \/ \E n \in 1 .. MaxLabelDay : d + n = t /\ rcall.label = "D+" \o ToString(n)

C1_Witness ==
    /\ rcall.op = "label"
    /\ rcall.release_date = rcall.today1 + 10
    /\ rcall.label = "D-10"

\* the release entries of the payload of the call, flattened
C2_Infos ==
    {[iso |-> rcall.entries[i].iso_3166_1,
      raw |-> rcall.entries[i].release_dates[j].release_date,
      type |-> rcall.entries[i].release_dates[j].type] :
        <<i, j>> \in {p \in (1 .. Len(rcall.entries)) \X (1 .. MaxInfos + 1) :
                        p[2] <= Len(rcall.entries[p[1]].release_dates)}}

C2_Requested == IF rcall.region # None THEN rcall.region ELSE rcall.default_region

\* bucket (a), (b), (c), (d) as the set of its dates: requested region or not,
\* re-release or not, always today or later
C2_Bucket(requested, re) ==
    {x.raw.day : x \in {y \in C2_Infos :
        /\ Parsable(y.raw)
        /\ y.raw.day >= rcall.today2
        /\ (y.iso = C2_Requested) = requested
        /\ (y.type = 5) = re}}

C2_Expected ==
    LET a == C2_Bucket(TRUE, FALSE)
        b == C2_Bucket(TRUE, TRUE)
        c == C2_Bucket(FALSE, FALSE)
        d == C2_Bucket(FALSE, TRUE)
    IN  IF a # {} THEN <<[date |-> SetMin(a), is_re_release |-> FALSE]>>
        ELSE IF b # {} THEN <<[date |-> SetMin(b), is_re_release |-> TRUE]>>
        ELSE IF c # {} THEN <<[date |-> SetMin(c), is_re_release |-> FALSE]>>
        ELSE IF d # {} THEN <<[date |-> SetMin(d), is_re_release |-> TRUE]>>
        ELSE <<>>

\* C2: _select_release returns the earliest date of the first non-empty bucket
\* among requested-region original, requested-region re-release, other-region
\* original, other-region re-release, each holding only dates >= today.
C2_BucketPriority ==
    rcall.op = "select_release" => rcall.release = C2_Expected

\* a requested-region original release 10 days out wins over a requested-region
\* re-release 2 days out and another region's original release 1 day out
C2_Witness ==
    /\ rcall.op = "select_release"
    /\ C2_Requested = "KR"
    /\ \E x \in C2_Infos : x.iso = "KR" /\ x.type = 3 /\ x.raw = RawDateTime(rcall.today2 + 10)
    /\ \E x \in C2_Infos : x.iso = "KR" /\ x.type = 5 /\ x.raw = RawDateTime(rcall.today2 + 2)
    /\ \E x \in C2_Infos : x.iso = "US" /\ x.type = 3 /\ x.raw = RawDateTime(rcall.today2 + 1)
    /\ rcall.release = <<[date |-> rcall.today2 + 10, is_re_release |-> FALSE]>>

C3_Future ==
    {i \in 1 .. Len(rcall.results) :
        Parsable(rcall.results[i].release_date) /\ rcall.results[i].release_date.day >= rcall.today1}
C3_Past ==
    {i \in 1 .. Len(rcall.results) :
        Parsable(rcall.results[i].release_date) /\ rcall.results[i].release_date.day < rcall.today1}
C3_Day(i) == rcall.results[i].release_date.day

\* C3: _select_candidate picks a candidate with the earliest date >= today if
\* there is one, else one with the latest date < today if there is one, else
\* the first result.
C3_CandidateChoice ==
    rcall.op = "select_candidate" =>
        LET chosen == rcall.candidate[1]
        IN  IF C3_Future # {}
            THEN \E i \in C3_Future :
                    /\ chosen = rcall.results[i]
                    /\ \A j \in C3_Future : C3_Day(i) <= C3_Day(j)
            ELSE IF C3_Past # {}
            THEN \E i \in C3_Past :
                    /\ chosen = rcall.results[i]
                    /\ \A j \in C3_Past : C3_Day(i) >= C3_Day(j)
            ELSE chosen = rcall.results[1]

\* only past-dated candidates, of different dates, and the most recent is not
\* the first of the list
C3_Witness ==
    /\ rcall.op = "select_candidate"
    /\ C3_Future = {}
    /\ Cardinality({C3_Day(i) : i \in C3_Past}) >= 2
    /\ rcall.candidate[1] # rcall.results[1]
    /\ \A j \in C3_Past : rcall.candidate[1].release_date.day >= C3_Day(j)

C4_SearchAnswered == rcall.api_key /\ rcall.search_http = "ok"
C4_DetailsAnswered == C4_SearchAnswered /\ rcall.results # <<>> /\ rcall.details_http = "ok"
C4_AllBucketsEmpty ==
    \A x \in C2_Infos : ~(Parsable(x.raw) /\ x.raw.day >= rcall.today2)

\* C4: search_movie raises TMDbNotFound exactly when the search answered with
\* zero results, raises TMDbNoUpcomingRelease exactly when a candidate was
\* chosen and no release entry is dated today or later, and returns no
\* MovieData in either case.
C4_NotFoundAndNoUpcoming ==
    rcall.op = "search_movie" =>
        /\ rcall.outcome.status = "TMDbNotFound"
            <=> (C4_SearchAnswered /\ rcall.results = <<>>)
        /\ rcall.outcome.status = "TMDbNoUpcomingRelease"
            <=> (C4_DetailsAnswered /\ C4_AllBucketsEmpty)
        /\ rcall.outcome.status \in {"TMDbNotFound", "TMDbNoUpcomingRelease"}
            => rcall.outcome.movie = <<>>

C4_Witness ==
    /\ rcall.op = "search_movie"
    /\ rcall.outcome.status = "TMDbNoUpcomingRelease"
    /\ \E x \in C2_Infos : Parsable(x.raw) /\ x.type = 3

\* C5: a returned MovieData has release_date >= today or is a re-release, and
\* a title whose original releases have all passed gives no original-release
\* result.
C5_NoPastOriginal ==
    (rcall.op = "search_movie" /\ rcall.outcome.status = "ok") =>
        LET movie == rcall.outcome.movie[1]
        IN  /\ movie.release_date >= rcall.today2 \/ movie.is_re_release
            /\ (\A x \in C2_Infos :
                    (Parsable(x.raw) /\ x.type # 5) => x.raw.day < rcall.today2)
                => movie.is_re_release

\* the original release has passed and a re-release is still to come
C5_Witness ==
    /\ rcall.op = "search_movie"
    /\ rcall.outcome.status = "ok"
    /\ rcall.outcome.movie[1].is_re_release
    /\ \E x \in C2_Infos : Parsable(x.raw) /\ x.type = 3 /\ x.raw.day < rcall.today2

SameKey(x, y) == x.source = y.source /\ x.external_id = y.external_id
Exchanges == 1 .. Len(history)
ReachedStore(h) == h.source # ""
\* exchange i was over before the request of exchange j arrived
Before(i, j) == i <= history[j].began

\* C6: no two Movie rows share (source, external_id); a request whose pair is
\* already stored inserts no Movie row and answers with the stored row.
C6_UniqueMovie ==
    /\ \A m1, m2 \in movies : SameKey(m1, m2) => m1 = m2
    /\ \A w \in Workers : \A n \in req[w].new_movies : \A m \in movies : ~SameKey(n, m)
    /\ \A i \in Exchanges : history[i].status = 200 =>
            \E m \in movies : m.id = history[i].movie_id /\ SameKey(m, history[i])
    /\ \A i, j \in Exchanges :
            ( /\ Before(i, j)
              /\ history[i].status = 200
              /\ ReachedStore(history[j])
              /\ SameKey(history[i], history[j]) )
            => /\ history[j].raised # "IntegrityError:movie"
               /\ history[j].status = 200 =>
                      history[j].movie_id = history[i].movie_id

\* POST /dday and POST /dday/confirm of two users for one title leave one row
C6_Witness ==
    /\ Cardinality(movies) = 1
    /\ \E i, j \in Exchanges :
        /\ history[i].endpoint = "dday" /\ history[j].endpoint = "confirm"
        /\ history[i].status = 200 /\ history[j].status = 200
        /\ history[i].user_id # history[j].user_id
        /\ SameKey(history[i], history[j])

C7_Already(h) ==
    /\ h.status = 200
    /\ ~h.created
    /\ h.view.message \in {MsgAlreadyWaiting, MsgAlreadyRegistered}

\* C7: at most one UserDDay row per (user, Movie); a request of a user who
\* already has the entry inserts nothing and answers 200 with the existing
\* entry's view and an already-waiting message.
C7_UniqueWaitEntry ==
    /\ \A d1, d2 \in ddays :
            (d1.user_id = d2.user_id /\ d1.movie_id = d2.movie_id) => d1 = d2
    /\ \A i, j \in Exchanges :
            ( /\ Before(i, j)
              /\ history[i].status = 200
              /\ ReachedStore(history[j])
              /\ history[i].user_id = history[j].user_id
              /\ SameKey(history[i], history[j]) )
            => /\ C7_Already(history[j])
               /\ history[j].view.name = history[i].view.name
               /\ history[j].movie_id = history[i].movie_id

C7_Witness ==
    /\ Cardinality(ddays) = 1
    /\ \E i, j \in Exchanges :
        /\ Before(i, j)
        /\ history[i].status = 200 /\ history[i].created
        /\ history[i].user_id = history[j].user_id
        /\ SameKey(history[i], history[j])
        /\ C7_Already(history[j])

Contains(text, part) ==
    \E k \in 0 .. Len(text) - Len(part) : SubSeq(text, k + 1, k + Len(part)) = part

\* "이미 등록된"
TextAlreadyRegistered == <<51060, 48120, 32, 46321, 47197, 46108>>

\* C8: when a user sends the same POST /dday twice and both succeed, the
\* message of the second response contains "이미 등록된".
C8_SecondSaysAlreadyRegistered ==
    \A i, j \in Exchanges :
        ( /\ Before(i, j)
          /\ history[i].endpoint = "dday" /\ history[j].endpoint = "dday"
          /\ history[i].user_id = history[j].user_id
          /\ history[i].query = history[j].query
          /\ SameKey(history[i], history[j])
          /\ history[i].status = 200 /\ history[j].status = 200 )
        => Contains(history[j].view.message, TextAlreadyRegistered)

\* C9: the waiting_count of a view is the number of distinct users with a
\* UserDDay row for that Movie when the view is built, counting the rows
\* committed so far and the one this request has just inserted.
C9_WaitingCount ==
    [][\A w \in Workers :
            (req[w].pc = "respond" /\ req'[w].pc = "commit") =>
                req'[w].view.waiting_count =
                    Cardinality({u \in Users : \E d \in ddays \cup req[w].new_ddays :
                        d.user_id = u /\ d.movie_id = req[w].existing_movie[1].id})]_vars

\* two users registered the same title: the second view counts 2, one Movie row
C9_Witness ==
    /\ Cardinality(movies) = 1
    /\ Cardinality({d.user_id : d \in ddays}) = 2
    /\ \E i \in Exchanges : history[i].status = 200 /\ history[i].view.waiting_count = 2

\* C10: a request that loses the race to insert a Movie recovers by fetching
\* the stored row; the uniqueness violation never reaches the client.
C10_RaceRecovered ==
    \A i \in Exchanges : history[i].raised # "IntegrityError:movie"

\* C11: on POST /dday a NotFound of the resolver is answered 404, a
\* NoUpcomingRelease 400 and any other TMDbError 502; a search without results
\* is a 404 and a film without a coming release a 400, never a 502.
C11_StatusPerFailure ==
    \A i \in Exchanges :
        LET h == history[i]
        IN  (h.endpoint = "dday" /\ h.upstream # <<>>) =>
              /\ h.raised = "TMDbNotFound" => h.status = 404
              /\ h.raised = "TMDbNoUpcomingRelease" => h.status = 400
              /\ h.raised = "TMDbError" => h.status = 502
              /\ (h.upstream[1].api_key /\ h.upstream[1].search_http = "ok"
                    /\ h.upstream[1].results = <<>>) => h.status = 404
              /\ h.status = 400 => h.raised = "TMDbNoUpcomingRelease"

\* one client has seen a 404 and a 400, or a 404 and a 502
C11_Witness ==
    \E i, j \in Exchanges :
        /\ history[i].endpoint = "dday" /\ history[j].endpoint = "dday"
        /\ history[i].status = 404
        /\ history[j].status \in {400, 502}
        /\ history[j].raised \in {"TMDbNoUpcomingRelease", "TMDbError"}

\* the failure of the catalog calls of one lookup, "none" when they succeed
C12_CatalogFailure(up) ==
    IF ~up.api_key THEN "missing_credential"
    ELSE IF up.search_http # "ok" THEN up.search_http
    ELSE IF up.results # <<>> /\ up.details_http # "ok" THEN up.details_http
    ELSE "none"

\* C12: a POST /dday whose catalog call fails (no API key, a non-2xx answer,
\* the catalog unreachable) has the resolver raise TMDbError and answers 502.
C12_CatalogFailureIs502 ==
    \A i \in Exchanges :
        LET h == history[i]
        IN  ( /\ h.endpoint = "dday"
              /\ h.upstream # <<>>
              /\ C12_CatalogFailure(h.upstream[1]) # "none" )
            => (h.raised = "TMDbError" /\ h.status = 502)

\* the tool calls of a reply that name one of the two search tools
C17_Known(llm) ==
    {i \in 1 .. Len(llm.tool_calls) :
        llm.tool_calls[i].name \in {"movie_search", "tv_search"}}

\* C17: orchestrate_movie_lookup calls the resolver exactly once; without an
\* API key, when the assistant raises, or when its reply names neither
\* movie_search nor tv_search, the call is search_movie with the raw query as
\* the title; otherwise it is the first search tool call of the reply.
C17_OneResolverCall ==
    rcall.op = "lookup" =>
        /\ Len(rcall.calls) = 1
        /\ IF rcall.llm.reply \in {"no_key", "raises"} \/ C17_Known(rcall.llm) = {}
           THEN rcall.calls[1] = ResolverCall("search_movie", rcall.user_query)
           ELSE LET call == rcall.llm.tool_calls[SetMin(C17_Known(rcall.llm))]
                IN  /\ rcall.calls[1].title = call.title
                    /\ rcall.calls[1].op =
                         (IF call.name = "movie_search" THEN "search_movie" ELSE "search_tv")

\* a reply whose first tool call is unknown and whose second is tv_search, and
\* a reply of unknown tools only for an untrimmed query
C17_Witness ==
    /\ rcall.op = "lookup"
    /\ \/ /\ Len(rcall.llm.tool_calls) = 2
          /\ rcall.llm.tool_calls[1].name = "web_search"
          /\ rcall.llm.tool_calls[2].name = "tv_search"
          /\ rcall.outcome.status = "ok"
       \/ /\ rcall.llm.reply = "message"
          /\ C17_Known(rcall.llm) = {}
          /\ rcall.user_query = <<" ", "a", " ">>
          /\ rcall.calls[1].title = <<" ", "a", " ">>

\* C19 as claimed: every 200 of POST /dday carries as name the trimmed query
\* of that request, whether the WaitEntry is new or was found.
C19_NameIsThisQuery ==
    \A i \in Exchanges :
        (history[i].endpoint = "dday" /\ history[i].status = 200)
            => history[i].view.name = strip(history[i].query)

\* C19 (amended): a 200 of POST /dday that creates the WaitEntry carries the
\* trimmed query of that request as name; one that finds the user's WaitEntry
\* carries the name stored in that entry, the trimmed query (or query_name) of
\* the request that created it.
C19_NameIsCreatingQuery ==
    \A i \in Exchanges :
        LET h == history[i]
        IN  (h.endpoint = "dday" /\ h.status = 200) =>
              /\ h.created => h.view.name = strip(h.query)
              /\ \E d \in ddays :
                    /\ d.user_id = h.user_id /\ d.movie_id = h.movie_id
                    /\ d.query_name = h.view.name
              /\ ~h.created =>
                    \E j \in 1 .. i - 1 :
                        /\ history[j].created /\ history[j].status = 200
                        /\ history[j].user_id = h.user_id
                        /\ history[j].movie_id = h.movie_id
                        /\ h.view.name = strip(history[j].query)

\* a user asks for one film under two texts: the second answer carries the first
C19_Witness ==
    \E i, j \in Exchanges :
        /\ i < j
        /\ history[i].endpoint = "dday" /\ history[j].endpoint = "dday"
        /\ history[i].status = 200 /\ history[j].status = 200
        /\ history[i].created /\ ~history[j].created
        /\ history[i].query = <<" ", "a", " ">> /\ history[j].query = <<"b">>
        /\ history[j].view.name = <<"a">>

\* a query of whitespace only
C13_Blank(q) == \A k \in 1 .. Len(q) : q[k] = " "

\* C13: a POST /dday or POST /chat/stream whose query is blank is answered
\* 422 with no resolver call, no catalog call, no stream event and no store
\* access; the store is as it was.
C13_BlankQueryRejected ==
    \A i \in Exchanges :
        LET h == history[i]
        IN  (h.endpoint \in {"dday", "chat"} /\ C13_Blank(h.query)) =>
              /\ h.status = 422
              /\ h.calls = <<>> /\ h.upstream = <<>>
              /\ h.events = <<>>
              /\ ~ReachedStore(h) /\ ~h.created

\* both endpoints have rejected a blank query
C13_Witness ==
    \E i, j \in Exchanges :
        /\ history[i].endpoint = "dday" /\ history[j].endpoint = "chat"
        /\ C13_Blank(history[i].query) /\ C13_Blank(history[j].query)
        /\ history[i].status = 422 /\ history[j].status = 422

C14_Names == [i \in 1 .. Len(rcall.events) |-> rcall.events[i].event]

\* C14: the events of a stream end with "end", and "end" is sent once,
\* whether the orchestrator returns or raises.
C14_EndsWithOneEnd ==
    rcall.op = "stream" =>
        /\ Len(C14_Names) >= 2
        /\ C14_Names[Len(C14_Names)] = "end"
        /\ Cardinality({i \in 1 .. Len(C14_Names) : C14_Names[i] = "end"}) = 1

\* the assistant's stream raises after a token went out: error, then end
C14_Witness ==
    /\ rcall.op = "stream"
    /\ rcall.outcome.status = "Exception"
    /\ \E i \in 1 .. Len(C14_Names) : C14_Names[i] = "token"
    /\ C14_Names[Len(C14_Names) - 1] = "error"
    /\ C14_Names[Len(C14_Names)] = "end"

\* the stage of an event in analysis, tool_started, tool_result and
\* dday/confirmation_required, token(s), final
C15_Stage(name) ==
    IF name = "start" THEN 0
    ELSE IF name = "analysis" THEN 1
    ELSE IF name = "tool_started" THEN 2
    ELSE IF name \in {"tool_result", "dday", "confirmation_required"} THEN 3
    ELSE IF name = "token" THEN 4
    ELSE 5

\* C15: in a stream no event of an earlier stage follows an event of a later
\* stage, and tool_result precedes its dday or confirmation_required.
C15_StageOrder ==
    rcall.op = "stream" =>
        \A i, j \in 1 .. Len(C14_Names) :
            i < j =>
                /\ C15_Stage(C14_Names[i]) <= C15_Stage(C14_Names[j])
                /\ C14_Names[j] = "tool_result" =>
                        C14_Names[i] \notin {"dday", "confirmation_required"}

C16_Streaming == {w \in Workers : req[w].endpoint = "chat"}

\* C16: no step of a POST /chat/stream changes the Movie or UserDDay rows or
\* leaves rows pending in its session; rows appear only when a POST /dday or
\* a POST /dday/confirm commits.
C16_StreamCreatesNothing ==
    [][ /\ \A w \in Workers :
            (req[w].endpoint = "chat" \/ req'[w].endpoint = "chat") =>
                /\ req'[w].new_movies = {} /\ req'[w].new_ddays = {}
                /\ (req[w].pc = "stream" /\ req'[w].pc = "idle") =>
                        (movies' = movies /\ ddays' = ddays)
        /\ (Len(history') > Len(history) /\ history'[Len(history')].endpoint = "chat")
                => (movies' = movies /\ ddays' = ddays)
        /\ (movies' # movies \/ ddays' # ddays) =>
                \E w \in Workers :
                    /\ req[w].pc = "commit"
                    /\ req[w].endpoint \in {"dday", "confirm"}
                    /\ req'[w].pc = "idle" ]_vars

\* a stream proposed a film and left the store empty; the user's later
\* POST /dday/confirm created the only rows
C16_Witness ==
    /\ Len(history) = 2
    /\ history[1].endpoint = "chat" /\ history[2].endpoint = "confirm"
    /\ \E k \in 1 .. Len(history[1].events) :
            history[1].events[k].event = "confirmation_required"
    /\ history[2].began = 1 /\ history[2].created
    /\ history[1].user_id = history[2].user_id
    /\ Cardinality(movies) = 1 /\ Cardinality(ddays) = 1

\* the views an exchange returned: of a POST, of GET /dday, of dday events
C18_Views(h) ==
    IF h.status # 200 THEN {}
    ELSE IF h.endpoint \in {"dday", "confirm"} THEN {h.view}
    ELSE IF h.endpoint = "list" THEN {h.views[k] : k \in 1 .. Len(h.views)}
    ELSE IF h.endpoint = "chat"
    THEN {h.events[k].view : k \in {n \in 1 .. Len(h.events) : h.events[n].event = "dday"}}
    ELSE {}

\* the stored rows a view of user u was built from
C18_Rows(u, v) ==
    {p \in ddays \X movies :
        /\ p[1].user_id = u /\ p[1].movie_id = p[2].id
        /\ p[1].query_name = v.name
        /\ p[2].title = v.movie_title}

\* C18: every view of POST /dday, POST /dday/confirm, GET /dday and of a dday
\* stream event carries label(stored release date, today of the response).
C18_LabelAtReadTime ==
    \A i \in Exchanges :
        \A v \in C18_Views(history[i]) :
            /\ C18_Rows(history[i].user_id, v) # {}
            /\ \A p \in C18_Rows(history[i].user_id, v) :
                    /\ v.release_date = p[2].release_date
                    /\ v.dday = calculate_dday_label(p[2].release_date, history[i].at)

\* an entry recorded on one day is read on the next: the view's label is not
\* the cached one
C18_Witness ==
    \E i \in Exchanges :
        /\ history[i].endpoint \in {"list", "chat"}
        /\ \E v \in C18_Views(history[i]) :
                \E p \in C18_Rows(history[i].user_id, v) : p[1].dday_label # v.dday

\* the user's entries whose release is today or later, with their Movie rows
C20_Mine(u, t) ==
    {p \in ddays \X movies :
        p[1].user_id = u /\ p[1].movie_id = p[2].id /\ p[2].release_date >= t}

\* C20: GET /dday/longest answers null exactly when the user has no entry
\* with release date >= today, and otherwise one of the user's such entries
\* with the greatest release date.
C20_Longest ==
    \A i \in Exchanges :
        LET h == history[i]
            mine == C20_Mine(h.user_id, h.at)
        IN  h.endpoint = "longest" =>
              /\ (h.views = <<>>) <=> (mine = {})
              /\ h.views # <<>> =>
                    \E p \in mine :
                        /\ p[2].release_date = SetMax({q[2].release_date : q \in mine})
                        /\ h.views[1].movie_title = p[2].title
                        /\ h.views[1].release_date = p[2].release_date

\* the user waits for a film that has opened and for two that open on the
\* same later day; the other user's film opens later still
C20_Witness ==
    \E i \in Exchanges :
        LET h == history[i]
            mine == C20_Mine(h.user_id, h.at)
        IN  /\ h.endpoint = "longest" /\ h.views # <<>>
            /\ Cardinality(mine) = 2
            /\ \E d \in ddays : \E m \in movies :
                    d.user_id = h.user_id /\ d.movie_id = m.id /\ m.release_date < h.at
            /\ \E d \in ddays : \E m \in movies :
                    /\ d.user_id # h.user_id /\ d.movie_id = m.id
                    /\ m.release_date > h.views[1].release_date

\* the step of worker w from a running request to an idle worker
C21_Ends(w) == req[w].pc # "idle" /\ req'[w].pc = "idle"

\* C21: a handler that returns has its flushed rows committed, a handler that
\* raises has them discarded, and either way the session is gone with the
\* request; a request that ends otherwise than by returning leaves the store
\* as it was.
C21_CommitOrRollback ==
    [][\A w \in Workers :
        C21_Ends(w) =>
            /\ Len(history') = Len(history) + 1
            /\ req'[w].new_movies = {} /\ req'[w].new_ddays = {}
            /\ IF history'[Len(history')].status = 200
               THEN /\ movies' = movies \cup req[w].new_movies
                    /\ ddays' = ddays \cup req[w].new_ddays
               ELSE /\ movies' = movies
                    /\ ddays' = ddays ]_vars

\* a request inserted a Movie, failed under create_user_dday and left no
\* Movie row behind
C21_Witness ==
    /\ \E i \in Exchanges :
            /\ history[i].raised = "OperationalError"
            /\ history[i].status = 500
            /\ \A m \in movies : ~SameKey(m, history[i])
    /\ InFlight = {}

\* the stored Movie rows of the film a stream found, and the users waiting
\* for them
C22_Stored ==
    IF rcall.outcome.movie = <<>> THEN {}
    ELSE {m \in movies : /\ m.source = rcall.outcome.movie[1].source
                         /\ m.external_id = rcall.outcome.movie[1].external_id}
C22_Waiting == {d.user_id : d \in {x \in ddays : \E m \in C22_Stored : x.movie_id = m.id}}
C22_Answers == {"dday", "confirmation_required"}

\* C22: in a stream every tool_result is followed at once by exactly one of
\* dday and confirmation_required: dday when the film is stored and the user
\* waits for it, otherwise confirmation_required carrying the number of users
\* waiting for the stored film, 0 when the film is not stored; neither event
\* appears without its tool_result.
C22_OneAnswerPerCandidate ==
    rcall.op = "stream" =>
        /\ \A i \in 1 .. Len(rcall.events) :
                rcall.events[i].event = "tool_result" =>
                    /\ i + 2 <= Len(rcall.events)
                    /\ rcall.outcome.movie # <<>>
                    /\ rcall.events[i + 2].event \notin C22_Answers
                    /\ IF rcall.user_id \in C22_Waiting
                       THEN rcall.events[i + 1].event = "dday"
                       ELSE /\ rcall.events[i + 1].event = "confirmation_required"
                            /\ rcall.events[i + 1].waiting_count = Cardinality(C22_Waiting)
        /\ \A i \in 1 .. Len(rcall.events) :
                rcall.events[i].event \in C22_Answers =>
                    i > 1 /\ rcall.events[i - 1].event = "tool_result"

\* the film is stored and only the other user waits for it: the stream
\* proposes it with a waiting count of 1
C22_Witness ==
    /\ rcall.op = "stream"
    /\ C22_Stored # {}
    /\ C22_Waiting = {"u2"}
    /\ \E i \in 1 .. Len(rcall.events) :
            /\ rcall.events[i].event = "confirmation_required"
            /\ rcall.events[i].waiting_count = 1

\* the positions of the events that tell the user how the stream went
C23_Told ==
    {i \in 1 .. Len(rcall.events) : rcall.events[i].event \in {"assistant_message", "error"}}

\* C23: a stream whose orchestrator raises tells the user once: an
\* assistant_message for TMDbNotFound and TMDbNoUpcomingRelease, an error
\* event for TMDbError and every other exception, and end is all that follows.
C23_ExceptionIsTold ==
    (rcall.op = "stream" /\ rcall.outcome.status # "") =>
        /\ C23_Told = {Len(rcall.events) - 1}
        /\ rcall.events[Len(rcall.events)].event = "end"
        /\ rcall.events[Len(rcall.events) - 1].event =
                IF rcall.outcome.status \in {"TMDbNotFound", "TMDbNoUpcomingRelease"}
                THEN "assistant_message" ELSE "error"

\* the resolver was started for a title without upcoming release: the user
\* reads an assistant_message, then end
C23_Witness ==
    /\ rcall.op = "stream"
    /\ rcall.outcome.status = "TMDbNoUpcomingRelease"
    /\ rcall.events[Len(rcall.events) - 1].event = "assistant_message"
    /\ \E i \in 1 .. Len(rcall.events) : rcall.events[i].event = "tool_started"

\* C24: when the assistant's reply invokes movie_search or tv_search and the
\* resolver succeeds, the stream carries the candidate (tool_result) before
\* the final assistant_message; the same for tv_search as for movie_search.
C24_CandidateBeforeFinal ==
    (/\ rcall.op = "stream"
     /\ rcall.chat_llm.reply = "stream"
     /\ rcall.calls # <<>>
     /\ rcall.outcome.status = "") =>
        \E i, j \in 1 .. Len(rcall.events) :
            /\ i < j
            /\ rcall.events[i].event = "tool_result"
            /\ rcall.events[j].event = "assistant_message"

\* a catalog date that is missing, empty or malformed
C25_Absent(raw) == raw.kind \in {"none", "empty", "bad"}
C25_DatedResults == SelectSeq(rcall.results, LAMBDA r : ~C25_Absent(r.release_date))
C25_DatedEntries ==
    [i \in 1 .. Len(rcall.entries) |->
        [rcall.entries[i] EXCEPT
            !.release_dates = SelectSeq(@, LAMBDA x : ~C25_Absent(x.release_date))]]

\* C25: a missing, empty or malformed catalog date counts as no date: the
\* candidate chosen is the one chosen among the dated results (the first
\* result when none is dated), the release chosen is the one chosen among the
\* dated entries and carries the date of an entry, and the selection returns
\* for every payload.
C25_UndatedLeftOut ==
    /\ rcall.op = "select_candidate" =>
            /\ Len(rcall.candidate) = 1
            /\ rcall.candidate[1] =
                    IF C25_DatedResults = <<>> THEN rcall.results[1]
                    ELSE _select_candidate(C25_DatedResults, rcall.today1)
            /\ C25_DatedResults # <<>> => ~C25_Absent(rcall.candidate[1].release_date)
    /\ rcall.op = "select_release" =>
            /\ Len(rcall.release) <= 1
            /\ rcall.release = _select_release(C25_DatedEntries, rcall.region,
                                               rcall.default_region, rcall.today2)
            /\ rcall.release # <<>> =>
                    \E x \in C2_Infos :
                        /\ ~C25_Absent(x.raw)
                        /\ x.raw.day = rcall.release[1].date
                        /\ (x.type = 5) = rcall.release[1].is_re_release

\* entries without date, with an empty date and with a malformed date come
\* before the dated entry that is chosen
C25_Witness ==
    /\ rcall.op = "select_release"
    /\ rcall.release # <<>>
    /\ {"none", "empty", "bad"} \subseteq {x.raw.kind : x \in C2_Infos}
    /\ C25_Absent(rcall.entries[1].release_dates[1].release_date)

C27_Answered ==
    IF Len(history') > Len(history) THEN {history'[Len(history')]} ELSE {}

\* C27: no step of any request changes or removes a stored Movie or UserDDay
\* row, so no waiting count decreases; and the view of a POST /dday or POST
\* /dday/confirm carries the title and release date of the stored Movie,
\* whatever the resolution or the payload of the request said.
C27_StoredRowsStay ==
    [][ /\ movies \subseteq movies'
        /\ ddays \subseteq ddays'
        /\ \A m \in movies :
                count_waiting_users(ddays', m.id) >= count_waiting_users(ddays, m.id)
        /\ \A h \in C27_Answered :
                (h.status = 200 /\ h.endpoint \in {"dday", "confirm"}) =>
                    \E m \in movies' :
                        /\ m.id = h.movie_id
                        /\ SameKey(m, h)
                        /\ (\E old \in movies : SameKey(old, h)) => m \in movies
                        /\ h.view.movie_title = m.title
                        /\ h.view.release_date = m.release_date ]_vars

\* the catalog now announces the stored film for another day: POST /dday
\* answers with the stored day and the stored row is as it was
C27_Witness ==
    \E i \in Exchanges :
        /\ history[i].endpoint = "dday"
        /\ history[i].status = 200
        /\ history[i].upstream # <<>>
        /\ LET found == search_movie(history[i].upstream[1], None, DefaultRegion,
                                     history[i].at, history[i].at)
           IN  /\ found.status = "ok"
               /\ found.movie[1].release_date # history[i].view.release_date
        /\ \E m \in movies :
                /\ m.id = history[i].movie_id
                /\ m.release_date = history[i].view.release_date

\* the title has release entries and each is a re-release dated before today
C28_OnlyPastReReleases ==
    /\ C2_Infos # {}
    /\ \A x \in C2_Infos : x.type = 5 /\ Parsable(x.raw) /\ x.raw.day < rcall.today2

\* C28: a MovieData that search_movie returns is never dated before today,
\* re-release or not, and a title whose only entries are re-releases of the
\* past ends in TMDbNoUpcomingRelease.
C28_NoPastDate ==
    rcall.op = "search_movie" =>
        /\ rcall.outcome.status = "ok" =>
                rcall.outcome.movie[1].release_date >= rcall.today2
        /\ (C4_DetailsAnswered /\ C28_OnlyPastReReleases) =>
                rcall.outcome.status = "TMDbNoUpcomingRelease"

\* two countries list the title, each with a re-release of the past only
C28_Witness ==
    /\ rcall.op = "search_movie"
    /\ C4_DetailsAnswered
    /\ C28_OnlyPastReReleases
    /\ Cardinality(C2_Infos) >= 2
    /\ rcall.outcome.status = "TMDbNoUpcomingRelease"

\* C29: for every release date d and day t, _compute_dday(d) evaluated on
\* day t is the string calculate_dday_label(d, today=t) returned.
C29_LabelsAgree ==
    rcall.op = "label" =>
        _compute_dday(rcall.release_date, rcall.today1) = rcall.label

\* a release of the past: both say "D+<days since>"
C29_Witness ==
    /\ rcall.op = "label"
    /\ rcall.release_date + 2 = rcall.today1
    /\ rcall.label = "D+2"
    /\ _compute_dday(rcall.release_date, rcall.today1) = "D+2"

====
